---- MODULE Spec2Model ----
(***************************************************************************)
(* Model of the Azure Service Bus trigger node (AzureServiceBusTrigger):   *)
(* the closure state built by trigger(), the background acquisition loop   *)
(* startSessionHandling, the subscribe callbacks processMessage and        *)
(* processError, and the closeFunction returned to the host.               *)
(*                                                                         *)
(* Every `await` of the source is a scheduling point: an action runs one   *)
(* handler from the point where it resumed to its next await (or return).  *)
(* The effect of an awaited broker call (a receiver closed, a session      *)
(* released) is taken at the call; the caller's continuation is a later    *)
(* step, so other callbacks may run in between.                            *)
(*                                                                         *)
(* The @azure/service-bus SDK and the broker are the environment: the      *)
(* broker grants a session only while no open receiver holds it, an accept *)
(* may be rejected, close() and getSessionState() may throw, a subscribed  *)
(* open receiver may report an error or deliver a message at any time, a   *)
(* closed client accepts nothing and delivers nothing.  A close() that     *)
(* throws leaves the receiver open.                                        *)
(***************************************************************************)
EXTENDS Integers, Sequences, FiniteSets, TLC

\* ---------------------------------------------------------------- bounds
MaxReceivers == 3
MaxAccepts == 3
MaxErrors == 2
MaxStops == 2
MaxMsgs == 2
MaxCloseFails == 1
MaxConcurrent == 2
MaxSinkFails == 1
NumSessions == 2
\* the narrower scope of the specification that also dispatches messages
ScopeReceivers == 2
ScopeAccepts == 2
ScopeErrors == 1
ScopeStops == 1
\* the node's start and its inputs
MaxConnLen == 2
MaxRetryCfg == 2
MaxBodyLen == 3
MaxItems == 2
MaxBatch == 2
MaxExecFails == 2

Rcv == 1..MaxReceivers
Sessions == 1..NumSessions
Handlers == 1..MaxErrors
Msgs == 1..MaxMsgs
Modes == {"none", "any", "specific"}

\* the configured Session ID of 'specific' mode
specificSessionId == 1

VARIABLES
    sessionMode,         \* node parameter sessionMode
    autoComplete,        \* node parameter autoComplete
    maxConcurrentCalls,  \* node parameter maxConcurrentCalls
    clientState,         \* serviceBusClient: "open" | "closed"
    clientCloseCalls,    \* number of serviceBusClient.close() calls
    rcvState,            \* per receiver: "unborn" | "open" | "closed"
    rcvSid,              \* per receiver: its session id (0 for a plain receiver)
    subscribed,          \* per receiver: subscribe() has been called on it
    closeCalls,          \* per receiver: close() calls, by closeFunction and by processError
    closeFails,          \* number of close() calls that threw
    receivers,           \* the plain receivers list
    activeReceivers,     \* sessionReceiverManager.activeReceivers (entry list of the Map)
    loopPc,              \* position of startSessionHandling
    loopCur,             \* the receiver getOrCreateSessionReceiver returned
    acceptCalls,         \* number of acceptSession / acceptNextSession calls issued
    acceptReq,           \* session id of the last accept request (0: acceptNextSession)
    reused,              \* the last getOrCreateSessionReceiver call returned a registered receiver
    handlers,            \* the running error callbacks
    stopPc,              \* position of closeFunction
    stopCalls,           \* number of closeFunction calls started
    stopReturns,         \* number of closeFunction calls returned
    stopRaises,          \* number of closeFunction calls that threw to the host
    stopCaught,          \* number of exceptions closeFunction's outer catch logged
    msgs,                \* per message: the receiver it was delivered on and the callback position
    nextMsg,             \* next message the broker delivers
    emitted,             \* the records handed to this.emit, in order
    completeCalls,       \* per message: completeMessage calls
    connectionString,    \* credentials.connectionString
    maxRetryAttempts,    \* node parameter maxRetryAttempts as configured
    trigPc,              \* trigger(): "new" | "failed" | "started"
    trigError,           \* message of the error trigger() threw ("" for none)
    trigClients,         \* ServiceBusClient objects trigger() constructed
    transport,           \* transport of the client: "none" | "ws" | "default"
    maxRetries,          \* retryOptions.maxRetries given to the client
    body,                \* message.body as delivered
    normalized,          \* messageBody after the normalizer
    renormalized,        \* the normalizer applied to its own result
    normPc,              \* "off" | "new" | "once" | "twice"
    protocol,            \* execute: node parameter protocol
    resource,            \* execute: node parameter resource
    operation,           \* execute: node parameter operation
    items,               \* execute: messageBody of each input item
    receiveMode,         \* execute: node parameter receiveMode
    execSessionMode,     \* execute: node parameter sessionMode
    manageSessionState,  \* execute: node parameter manageSessionState
    newSessionState,     \* execute: node parameter newSessionState
    exPc,                \* position of execute
    exIdx,               \* the item or message execute is at
    execClients,         \* ServiceBusClient objects execute constructed
    execCloses,          \* serviceBusClient.close() calls of execute
    brokerOps,           \* requests execute has sent to the broker
    sent,                \* the items a send was issued for, in order
    messages,            \* the bodies receiveMessages returned
    completed,           \* the messages completeMessage was called for, in order
    stateSets,           \* setSessionState calls
    returnData,          \* the records appended to returnData
    cause,               \* message of the error caught by execute's catch
    execError,           \* message of the error execute threw
    execFails            \* broker calls of execute that failed

cfgVars == <<sessionMode, autoComplete, maxConcurrentCalls>>
rcvVars == <<rcvState, rcvSid, subscribed, closeCalls, closeFails>>
loopVars == <<loopPc, loopCur, acceptCalls, acceptReq, reused>>
stopEnds == <<stopReturns, stopRaises, stopCaught>>
stopVars == <<stopPc, stopCalls, stopEnds>>
msgVars == <<msgs, nextMsg, emitted, completeCalls>>
clientVars == <<clientState, clientCloseCalls>>
startVars == <<connectionString, maxRetryAttempts, trigPc, trigError, trigClients,
               transport, maxRetries>>
\* the state of the running trigger
trigVars == <<cfgVars, clientVars, rcvVars, receivers, activeReceivers, loopVars,
              handlers, stopVars, msgVars>>
\* what the running trigger leaves alone
normVars == <<body, normalized, renormalized, normPc>>
paramVars == <<protocol, resource, operation, items, receiveMode, execSessionMode,
               manageSessionState, newSessionState>>
\* what every exit of execute's try block sets
endVars == <<exPc, cause, execError, execCloses>>
runVars == <<exIdx, execClients, brokerOps, sent, messages, completed, stateSets,
             returnData, execFails>>
execVars == <<paramVars, endVars, runVars>>
offVars == <<startVars, normVars, execVars>>
vars == <<trigVars, offVars>>

\* ------------------------------------------------------ JavaScript values
\* a value is its typeof tag (null and Buffer are told apart from other
\* objects) and a payload: the code units of a string, the bytes of a
\* Buffer, the one number of a number (none for NaN)
Undefined == [t |-> "undefined", v |-> <<>>]
Null == [t |-> "null", v |-> <<>>]
Str(s) == [t |-> "string", v |-> s]
Num(n) == [t |-> "number", v |-> <<n>>]
NaN == [t |-> "number", v |-> <<>>]
Bool(b) == [t |-> "boolean", v |-> <<IF b THEN 1 ELSE 0>>]

\* x < n on a value: false unless x is a number other than NaN below n
LessThan(x, n) == x.t = "number" /\ x.v # <<>> /\ x.v[1] < n

\* !x
Falsy(x) ==
    \/ x.t \in {"undefined", "null"}
    \/ x.t = "string" /\ x.v = <<>>
    \/ x.t = "number" /\ (x.v = <<>> \/ x.v[1] = 0)
    \/ x.t = "boolean" /\ x.v[1] = 0

SeqsUpTo(S, n) == UNION {[1..k -> S] : k \in 0..n}

\* s.includes(c) for a one-unit c
Includes(s, c) == \E i \in 1..Len(s) : s[i] = c

\* the units of a connection string: the placeholder '__n8n_BLANK_VALUE_' as
\* one unit, and any other text
BlankValue == 95
ConnText == 69

ConnectionStrings ==
    {Undefined} \cup {Str(s) : s \in SeqsUpTo({ConnText, BlankValue}, MaxConnLen)}

\* ------------------------------------------------------- message bodies
\* the units of a body text: the characters '{', '}', ' ' and a letter, and
\* three member texts of a JSON object taken as one unit each:
\* "a":1, "type":"Buffer","data":[104] and "type":"Buffer"
LBrace == 123
RBrace == 125
Space == 32
Letter == 104
MemberA == 1001
MemberWrap == 1002
MemberType == 1003
\* a byte that is no UTF-8 sequence, and U+FFFD that decoding puts for it
InvalidByte == 255
Replacement == 65533

Members == {MemberA, MemberWrap, MemberType}
Units == {LBrace, RBrace, Space, Letter} \cup Members
Bytes == Units \cup {InvalidByte}

Buffer(bs) == [t |-> "buffer", v |-> bs]
Object(ms) == [t |-> "object", v |-> ms]
Array(xs) == [t |-> "array", v |-> xs]
\* the outcome of an evaluation that throws
Thrown == [t |-> "throw", v |-> <<>>]

\* buffer.toString('utf8')
Utf8Decode(bs) ==
    [i \in 1..Len(bs) |-> IF bs[i] = InvalidByte THEN Replacement ELSE bs[i]]

\* s.trim()
Trim(s) ==
    LET keep == {i \in 1..Len(s) : s[i] # Space} IN
    IF keep = {} THEN <<>>
    ELSE LET lo == CHOOSE i \in keep : \A j \in keep : i <= j
             hi == CHOOSE i \in keep : \A j \in keep : j <= i
         IN SubSeq(s, lo, hi)

\* s.startsWith(c) for a one-unit c
StartsWith(s, c) == Len(s) > 0 /\ s[1] = c

NotSpace(c) == c # Space

\* the members between the braces of a JSON object text, whitespace dropped
Inner(s) == LET c == SelectSeq(s, NotSpace) IN SubSeq(c, 2, Len(c) - 1)

\* whether JSON.parse(s) returns for a text starting with '{': an object
\* text with no member or one member
JsonParses(s) ==
    LET c == SelectSeq(s, NotSpace) IN
    /\ Len(c) >= 2 /\ c[1] = LBrace /\ c[Len(c)] = RBrace
    /\ Len(c) <= 3
    /\ \A i \in 2..(Len(c) - 1) : c[i] \in Members

\* JSON.parse(s) where it returns
JsonParse(s) == Object(Inner(s))

\* messageBody.type === 'Buffer' on a truthy object
HasBufferType(x) ==
    x.t = "object" /\ (Includes(x.v, MemberWrap) \/ Includes(x.v, MemberType))

\* Buffer.from(messageBody.data): the bytes of the data array; it throws a
\* TypeError when there is no data
BufferFromData(x) == IF Includes(x.v, MemberWrap) THEN Buffer(<<Letter>>) ELSE Thrown

DecodeBufferOnly(x) ==
    IF x.t = "buffer" THEN Str(Utf8Decode(x.v)) ELSE x

\* the first step of the normalizer: a Buffer wrapper structure or a Buffer
\* becomes its text
DecodeBinary(x) ==
    IF HasBufferType(x)
    THEN IF BufferFromData(x) = Thrown THEN Thrown
         ELSE Str(Utf8Decode(BufferFromData(x).v))
    ELSE IF x.t = "buffer" THEN Str(Utf8Decode(x.v))
    ELSE x

\* the second step: a string that starts with '{' once trimmed is replaced
\* by its JSON.parse result, and kept when JSON.parse throws
ParseJsonText(x) ==
    IF x.t = "string" /\ StartsWith(Trim(x.v), LBrace)
    THEN IF JsonParses(x.v) THEN JsonParse(x.v) ELSE x
    ELSE x

\* the body normalizer of processMessage and of execute's receive loop
Normalize(x) ==
    IF DecodeBinary(x) = Thrown THEN Thrown ELSE ParseJsonText(DecodeBinary(x))

\* the bodies a message may be delivered with
Bodies ==
    {Str(s) : s \in SeqsUpTo(Units, MaxBodyLen)} \cup
    {Buffer(bs) : bs \in SeqsUpTo(Bytes, MaxBodyLen)} \cup
    {Object(ms) : ms \in SeqsUpTo(Members, 1)} \cup
    {Num(0), Num(1), Bool(TRUE), Bool(FALSE), Null, Undefined, Array(<<>>)}

\* the default of maxRetryAttempts, also what replaces an unusable value
DefaultMaxRetries == 1000000

\* what getNodeParameter('maxRetryAttempts', 1000000) may return
RetryInputs ==
    {Num(n) : n \in (-MaxRetryCfg)..MaxRetryCfg} \cup
    {Num(DefaultMaxRetries), NaN, Str(<<53>>), Null}

\* ------------------------------------------------ the Map activeReceivers
\* A JavaScript Map keeps its entries in insertion order. delete() and clear()
\* empty entries in place, set() of a present key replaces the value in place,
\* set() of a new key appends; a running iterator sees all of this.
EmptyEntry == [key |-> 0, value |-> 0]

MapHas(m, k) == \E i \in 1..Len(m) : m[i].key = k

MapGet(m, k) == m[CHOOSE i \in 1..Len(m) : m[i].key = k].value

MapSet(m, k, v) ==
    IF MapHas(m, k)
    THEN [i \in 1..Len(m) |-> IF m[i].key = k THEN [key |-> k, value |-> v] ELSE m[i]]
    ELSE Append(m, [key |-> k, value |-> v])

MapClear(m) == [i \in 1..Len(m) |-> EmptyEntry]

MapDelete(m, k) == [i \in 1..Len(m) |-> IF m[i].key = k THEN EmptyEntry ELSE m[i]]

MapValues(m) == {m[i].value : i \in {j \in 1..Len(m) : m[j].key # 0}}

MapIsEmpty(m) == MapValues(m) = {}

\* iterator.next(): the first live entry after position idx, 0 when exhausted
MapNext(m, idx) ==
    IF \E j \in (idx + 1)..Len(m) : m[j].key # 0
    THEN CHOOSE j \in (idx + 1)..Len(m) :
            m[j].key # 0 /\ \A k \in (idx + 1)..(j - 1) : m[k].key = 0
    ELSE 0

\* ------------------------------------------------------------ receivers
NoCalls == [stop |-> 0, err |-> 0]

TotalCloses(r) == closeCalls[r].stop + closeCalls[r].err

\* outcomes receiver.close() may have: a closed receiver closes again quietly
CloseOutcomes(r) ==
    IF rcvState[r] = "open" /\ closeFails < MaxCloseFails THEN {TRUE, FALSE} ELSE {TRUE}

\* the broker grants a session only while no open receiver holds its lock
SessionFree(s) == \A r \in Rcv : ~(rcvState[r] = "open" /\ rcvSid[r] = s)

NextRcv == Cardinality({r \in Rcv : rcvState[r] # "unborn"}) + 1

IdleHandler == [pc |-> "idle", idx |-> 0, self |-> 0, tracked |-> {}]

AcceptRequestFallsBack ==
    IF sessionMode = "specific" /\ loopPc # "sleep5" THEN specificSessionId ELSE 0

\* the accept request getOrCreateSessionReceiver sends: acceptSession for the
\* configured id in 'specific' mode, acceptNextSession (0) otherwise
AcceptRequest == IF sessionMode = "specific" THEN specificSessionId ELSE 0

\* --------------------------------------------------------------- Init
\* The state in which trigger() returns: the client is built, in 'none' mode
\* the plain receiver is created and subscribed, in a session mode the
\* registry is empty and startSessionHandling has issued its first accept.
Init ==
    /\ sessionMode \in Modes
    /\ autoComplete \in BOOLEAN
    /\ maxConcurrentCalls \in 1..MaxConcurrent
    /\ clientState = "open"
    /\ clientCloseCalls = 0
    /\ rcvState = [r \in Rcv |-> IF sessionMode = "none" /\ r = 1 THEN "open" ELSE "unborn"]
    /\ rcvSid = [r \in Rcv |-> 0]
    /\ subscribed = [r \in Rcv |-> sessionMode = "none" /\ r = 1]
    /\ closeCalls = [r \in Rcv |-> NoCalls]
    /\ closeFails = 0
    /\ receivers = IF sessionMode = "none" THEN <<1>> ELSE <<>>
    /\ activeReceivers = <<>>
    /\ loopPc = IF sessionMode = "none" THEN "off" ELSE "accepting"
    /\ loopCur = 0
    /\ acceptCalls = IF sessionMode = "none" THEN 0 ELSE 1
    /\ acceptReq = AcceptRequest
    /\ reused = FALSE
    /\ handlers = [h \in Handlers |-> IdleHandler]
    /\ stopPc = [pc |-> "idle", idx |-> 0]
    /\ stopCalls = 0
    /\ stopReturns = 0
    /\ stopRaises = 0
    /\ stopCaught = 0
    /\ msgs = [m \in Msgs |-> [rcv |-> 0, pc |-> "none"]]
    /\ nextMsg = 1
    /\ emitted = <<>>
    /\ completeCalls = [m \in Msgs |-> 0]
    /\ connectionString = Str(<<ConnText>>)
    /\ maxRetryAttempts = Num(DefaultMaxRetries)
    /\ trigPc = "started"
    /\ trigError = ""
    /\ trigClients = 1
    /\ transport = "ws"
    /\ maxRetries = Num(DefaultMaxRetries)
    /\ body = Undefined /\ normalized = Undefined /\ renormalized = Undefined
    /\ normPc = "off"
    /\ protocol = "sdk" /\ resource = "queue" /\ operation = "sendMessage"
    /\ items = <<>> /\ receiveMode = "peekLock" /\ execSessionMode = "none"
    /\ manageSessionState = FALSE /\ newSessionState = Str(<<>>)
    /\ exPc = "off" /\ exIdx = 0 /\ execClients = 0 /\ execCloses = 0
    /\ brokerOps = 0 /\ sent = <<>> /\ messages = <<>> /\ completed = <<>>
    /\ stateSets = 0 /\ returnData = <<>> /\ cause = <<>> /\ execError = <<>>
    /\ execFails = 0

\* ------------------------------------------------------ trigger() start
\* the trigger variables before trigger() has built anything
NoTrigger ==
    /\ sessionMode = "none" /\ autoComplete = TRUE /\ maxConcurrentCalls = 1
    /\ clientState = "unbuilt" /\ clientCloseCalls = 0
    /\ rcvState = [r \in Rcv |-> "unborn"]
    /\ rcvSid = [r \in Rcv |-> 0]
    /\ subscribed = [r \in Rcv |-> FALSE]
    /\ closeCalls = [r \in Rcv |-> NoCalls]
    /\ closeFails = 0
    /\ receivers = <<>> /\ activeReceivers = <<>>
    /\ loopPc = "off" /\ loopCur = 0 /\ acceptCalls = 0 /\ acceptReq = 0
    /\ reused = FALSE
    /\ handlers = [h \in Handlers |-> IdleHandler]
    /\ stopPc = [pc |-> "idle", idx |-> 0]
    /\ stopCalls = 0 /\ stopReturns = 0 /\ stopRaises = 0 /\ stopCaught = 0
    /\ msgs = [m \in Msgs |-> [rcv |-> 0, pc |-> "none"]]
    /\ nextMsg = 1 /\ emitted = <<>>
    /\ completeCalls = [m \in Msgs |-> 0]

\* trigger() has not run yet
Unstarted ==
    /\ trigPc = "new" /\ trigError = "" /\ trigClients = 0
    /\ transport = "none" /\ maxRetries = Undefined

NotStarted ==
    /\ connectionString \in ConnectionStrings
    /\ maxRetryAttempts \in RetryInputs
    /\ Unstarted

\* the credentials and parameters of a configured node
Configured ==
    /\ connectionString = Str(<<ConnText>>)
    /\ maxRetryAttempts = Num(DefaultMaxRetries)

\* execute is not running
NoExecute ==
    /\ protocol = "sdk" /\ resource = "queue" /\ operation = "sendMessage"
    /\ items = <<>> /\ receiveMode = "peekLock" /\ execSessionMode = "none"
    /\ manageSessionState = FALSE /\ newSessionState = Str(<<>>)
    /\ exPc = "off" /\ exIdx = 0 /\ execClients = 0 /\ execCloses = 0
    /\ brokerOps = 0 /\ sent = <<>> /\ messages = <<>> /\ completed = <<>>
    /\ stateSets = 0 /\ returnData = <<>> /\ cause = <<>> /\ execError = <<>>
    /\ execFails = 0

\* no body is being normalized
NoBody ==
    /\ body = Undefined /\ normalized = Undefined /\ renormalized = Undefined
    /\ normPc = "off"

\* maxRetryAttempts after the check of an unusable value
EffectiveMaxRetries(x) ==
    IF x.t # "number" \/ LessThan(x, 0) THEN Num(DefaultMaxRetries) ELSE x

ConnectionStringRequiredOnly(cs) ==
    IF Falsy(cs) THEN "Azure Service Bus connection string is required" ELSE ""

\* the check of the connection string: the message of the error thrown, ""
\* when it passes
ConnectionStringError(cs) ==
    IF Falsy(cs) THEN "Azure Service Bus connection string is required"
    ELSE IF Includes(cs.v, BlankValue)
    THEN "Connection string contains blank values. Please re-enter your credentials."
    ELSE ""

\* trigger() from the credentials to the constructed client; ws is whether
\* the WebSocket transport can be set up
TriggerStart(ws) ==
    /\ trigPc = "new"
    /\ IF ConnectionStringError(connectionString) # ""
       THEN /\ trigPc' = "failed"
            /\ trigError' = ConnectionStringError(connectionString)
            /\ UNCHANGED <<trigClients, transport, maxRetries>>
       ELSE /\ trigPc' = "started"
            /\ trigClients' = trigClients + 1
            /\ transport' = IF ws THEN "ws" ELSE "default"
            /\ maxRetries' = EffectiveMaxRetries(maxRetryAttempts)
            /\ UNCHANGED trigError
    /\ UNCHANGED <<trigVars, normVars, execVars, connectionString, maxRetryAttempts>>

\* ------------------------------------- startSessionHandling (the loop)
GetOrCreateAlwaysAccepts ==
    /\ acceptCalls < MaxAccepts
    /\ acceptCalls' = acceptCalls + 1
    /\ acceptReq' = AcceptRequest
    /\ reused' = FALSE
    /\ loopPc' = IF clientState = "open" THEN "accepting" ELSE "sleep5"
    /\ UNCHANGED loopCur

\* getOrCreateSessionReceiver up to its await: 'specific' mode returns the
\* registered receiver when the registry has the configured id, otherwise an
\* accept request goes to the client; a closed client rejects it at once.
GetOrCreateCall ==
    IF sessionMode = "specific" /\ MapHas(activeReceivers, specificSessionId)
    THEN /\ loopCur' = MapGet(activeReceivers, specificSessionId)
         /\ loopPc' = "got"
         /\ reused' = TRUE
         /\ UNCHANGED <<acceptCalls, acceptReq>>
    ELSE /\ acceptCalls < MaxAccepts
         /\ acceptCalls' = acceptCalls + 1
         /\ acceptReq' = AcceptRequest
         /\ reused' = FALSE
         /\ loopPc' = IF clientState = "open" THEN "accepting" ELSE "sleep5"
         /\ UNCHANGED loopCur

\* the registration getOrCreateSessionReceiver makes for an accepted session
RegisterAccepted(m, s, r) == MapSet(m, s, r)

\* acceptSession / acceptNextSession resolves: the broker grants session s
AcceptOk(s) ==
    /\ loopPc = "accepting"
    /\ clientState = "open"
    /\ acceptReq \in {0, s}
    /\ SessionFree(s)
    /\ NextRcv <= MaxReceivers
    /\ rcvState' = [rcvState EXCEPT ![NextRcv] = "open"]
    /\ rcvSid' = [rcvSid EXCEPT ![NextRcv] = s]
    /\ activeReceivers' = RegisterAccepted(activeReceivers, s, NextRcv)
    /\ loopCur' = NextRcv
    /\ loopPc' = "got"
    /\ UNCHANGED <<offVars, cfgVars, clientVars, subscribed, closeCalls, closeFails, receivers,
                   acceptCalls, acceptReq, reused, handlers, stopVars, msgVars>>

AcceptFailRejectsStart ==
    /\ loopPc = "accepting"
    /\ loopPc' = "sleep5"
    /\ trigPc' = "failed"
    /\ trigError' = "accept failed"
    /\ UNCHANGED <<connectionString, maxRetryAttempts, trigClients, transport, maxRetries,
                   normVars, execVars>>
    /\ UNCHANGED <<cfgVars, clientVars, rcvVars, receivers, activeReceivers, loopCur,
                   acceptCalls, acceptReq, reused, handlers, stopVars, msgVars>>

\* the accept rejects: getOrCreateSessionReceiver rethrows, the loop's catch
\* logs and sleeps 5 s
AcceptFail ==
    /\ loopPc = "accepting"
    /\ loopPc' = "sleep5"
    /\ UNCHANGED <<offVars, cfgVars, clientVars, rcvVars, receivers, activeReceivers, loopCur,
                   acceptCalls, acceptReq, reused, handlers, stopVars, msgVars>>

AfterSubscribeStops == "done"

\* where the loop goes after a successful subscribe
AfterSubscribe == IF sessionMode = "specific" THEN "done" ELSE "sleep1"

\* sessionReceiver.subscribe(...): throws on a closed or already subscribed
\* receiver and on a closed client, which the loop's catch turns into a 5 s sleep
LoopSubscribe ==
    /\ loopPc = "got"
    /\ IF rcvState[loopCur] = "open" /\ ~subscribed[loopCur] /\ clientState = "open"
       THEN /\ subscribed' = [subscribed EXCEPT ![loopCur] = TRUE]
            /\ loopPc' = AfterSubscribe
       ELSE /\ loopPc' = "sleep5"
            /\ UNCHANGED subscribed
    /\ UNCHANGED <<offVars, cfgVars, clientVars, rcvState, rcvSid, closeCalls, closeFails,
                   receivers, activeReceivers, loopCur, acceptCalls, acceptReq,
                   reused, handlers, stopVars, msgVars>>

\* the setTimeout of either sleep fires: the loop is back at the head of
\* while (true) and calls getOrCreateSessionReceiver
LoopWake ==
    /\ loopPc \in {"sleep1", "sleep5"}
    /\ GetOrCreateCall
    /\ UNCHANGED <<offVars, cfgVars, clientVars, rcvVars, receivers, activeReceivers,
                   handlers, stopVars, msgVars>>

\* ----------------------------------------------------- receiver.close()
\* close() is called on receiver r by who ("stop" or "err"); ok is its outcome
CloseCall(r, who, ok) ==
    /\ closeCalls' = [closeCalls EXCEPT ![r][who] = @ + 1]
    /\ rcvState' = IF ok THEN [rcvState EXCEPT ![r] = "closed"] ELSE rcvState
    /\ closeFails' = IF ok THEN closeFails ELSE closeFails + 1

NoCloseCall == UNCHANGED <<closeCalls, rcvState, closeFails>>

\* -------------------------------------------------------- processError
\* what processError does to the registry once its for-of loop is exhausted
EvictAll(m) == MapClear(m)

\* processError of handler h (now hr) from iterator position idx to its next
\* await: close the next tracked receiver, or clear the registry and return
ProcessErrorFrom(h, hr, idx) ==
    LET j == MapNext(activeReceivers, idx) IN
    IF j # 0
    THEN /\ \E ok \in CloseOutcomes(activeReceivers[j].value) :
                CloseCall(activeReceivers[j].value, "err", ok)
         /\ handlers' = [handlers EXCEPT ![h] = [hr EXCEPT !.pc = "iter", !.idx = j]]
         /\ UNCHANGED activeReceivers
    ELSE /\ activeReceivers' = EvictAll(activeReceivers)
         /\ handlers' = [handlers EXCEPT ![h] = [hr EXCEPT !.pc = "wrap"]]
         /\ NoCloseCall

FreeHandler(h) ==
    /\ handlers[h].pc = "idle"
    /\ \A k \in Handlers : k < h => handlers[k].pc # "idle"

\* processError runs only its console.error unless the trigger is in a
\* session mode (sessionMode !== 'none' && sessionReceiverManager)
RecreatesReceivers == sessionMode # "none"

ClosesOnError(r) == CloseCall(r, "err", TRUE)

\* what processError does to the receivers when it only logs: nothing
LogOnly(r) == NoCloseCall

\* the error callback of receiver r starts in handler h and runs to its first
\* await; for a plain handle it only logs and returns
ErrorStart(h, r) ==
    IF RecreatesReceivers
    THEN ProcessErrorFrom(h, [pc |-> "iter", idx |-> 0, self |-> r,
                              tracked |-> MapValues(activeReceivers)], 0)
    ELSE /\ handlers' = [handlers EXCEPT ![h] = [pc |-> "done", idx |-> 0, self |-> r,
                                                 tracked |-> {}]]
         /\ LogOnly(r)
         /\ UNCHANGED activeReceivers

\* the SDK reports an error for subscribed receiver r
ErrorFire(h, r) ==
    /\ FreeHandler(h)
    /\ rcvState[r] = "open" /\ subscribed[r]
    /\ ErrorStart(h, r)
    /\ UNCHANGED <<offVars, cfgVars, clientVars, rcvSid, subscribed, receivers, loopVars,
                   stopVars, msgVars>>

\* processMessage of message m rejected (this.emit threw): the SDK reports
\* the rejection to the processError given to the same subscribe call
SinkErrorFire(h, m) ==
    /\ FreeHandler(h)
    /\ msgs[m].pc = "rejected"
    /\ ErrorStart(h, msgs[m].rcv)
    /\ msgs' = [msgs EXCEPT ![m].pc = "done"]
    /\ UNCHANGED <<offVars, cfgVars, clientVars, rcvSid, subscribed, receivers, loopVars,
                   stopVars, nextMsg, emitted, completeCalls>>

\* an awaited receiver.close() of processError returns (or threw and was caught)
ErrorResume(h) ==
    /\ handlers[h].pc = "iter"
    /\ ProcessErrorFrom(h, handlers[h], handlers[h].idx)
    /\ UNCHANGED <<offVars, cfgVars, clientVars, rcvSid, subscribed, receivers, loopVars,
                   stopVars, msgVars>>

\* the for-of / break of the session handle's own processError wrapper
DeleteOwn(m, r) ==
    IF \E i \in 1..Len(m) : m[i].key # 0 /\ m[i].value = r
    THEN LET i == CHOOSE i \in 1..Len(m) :
                     /\ m[i].key # 0 /\ m[i].value = r
                     /\ \A k \in 1..(i - 1) : ~(m[k].key # 0 /\ m[k].value = r)
         IN MapDelete(m, m[i].key)
    ELSE m

\* the wrapper resumes after `await processError(args)`
ErrorWrap(h) ==
    /\ handlers[h].pc = "wrap"
    /\ activeReceivers' = DeleteOwn(activeReceivers, handlers[h].self)
    /\ handlers' = [handlers EXCEPT ![h].pc = "done"]
    /\ UNCHANGED <<offVars, cfgVars, clientVars, rcvVars, receivers, loopVars, stopVars, msgVars>>

\* -------------------------------------------------------- closeFunction
\* outcomes serviceBusClient.close() may have
ClientCloseOutcomes == IF closeFails < MaxCloseFails THEN {TRUE, FALSE} ELSE {TRUE}

\* await serviceBusClient.close(); ok is its outcome
ClientClose(ok) ==
    /\ clientCloseCalls' = clientCloseCalls + 1
    /\ clientState' = IF ok THEN "closed" ELSE clientState
    /\ closeFails' = IF ok THEN closeFails ELSE closeFails + 1
    /\ UNCHANGED <<closeCalls, rcvState>>

StopReturn ==
    /\ stopPc' = [pc |-> "idle", idx |-> 0]
    /\ stopReturns' = stopReturns + 1
    /\ UNCHANGED stopRaises

StopCatchRethrows ==
    /\ stopCaught' = stopCaught + 1
    /\ stopPc' = [pc |-> "idle", idx |-> 0]
    /\ stopRaises' = stopRaises + 1
    /\ UNCHANGED stopReturns

\* the outer catch of closeFunction: console.error, then the function ends
StopCatch ==
    /\ stopCaught' = stopCaught + 1
    /\ StopReturn

\* what closeFunction does to the registry once its for-of loop is exhausted
StopEvictAll(m) == MapClear(m)

\* closeFunction from the session loop's iterator position idx to its next await
StopSessionsFrom(idx) ==
    LET j == MapNext(activeReceivers, idx) IN
    IF sessionMode # "none" /\ j # 0
    THEN /\ \E ok \in CloseOutcomes(activeReceivers[j].value) :
                CloseCall(activeReceivers[j].value, "stop", ok)
         /\ stopPc' = [pc |-> "sessions", idx |-> j]
         /\ UNCHANGED <<activeReceivers, clientVars, stopEnds>>
    ELSE /\ activeReceivers' =
                IF sessionMode # "none" THEN StopEvictAll(activeReceivers) ELSE activeReceivers
         /\ \E ok \in ClientCloseOutcomes :
                /\ ClientClose(ok)
                /\ stopPc' = [pc |-> IF ok THEN "client" ELSE "clientThrew", idx |-> 0]
         /\ UNCHANGED stopEnds

\* the plain receivers of closeFunction's first loop still to be closed after
\* position i
PlainLeft(i) == i <= Len(receivers)

\* closeFunction from plain receiver i to its next await; a close() that
\* throws here is not caught per receiver
StopPlainFrom(i) ==
    IF PlainLeft(i)
    THEN /\ \E ok \in CloseOutcomes(receivers[i]) :
                /\ CloseCall(receivers[i], "stop", ok)
                /\ stopPc' = [pc |-> IF ok THEN "plain" ELSE "plainThrew", idx |-> i]
         /\ UNCHANGED <<activeReceivers, clientVars, stopEnds>>
    ELSE StopSessionsFrom(0)

\* the host calls closeFunction
StopCall ==
    /\ stopPc.pc = "idle"
    /\ stopCalls < MaxStops
    /\ stopCalls' = stopCalls + 1
    /\ StopPlainFrom(1)
    /\ UNCHANGED <<offVars, cfgVars, rcvSid, subscribed, receivers, loopVars, handlers, msgVars>>

\* an await of closeFunction returns, or throws into the outer catch
StopResume ==
    /\ stopPc.pc # "idle"
    /\ IF stopPc.pc = "plain" THEN StopPlainFrom(stopPc.idx + 1)
       ELSE IF stopPc.pc = "sessions" THEN StopSessionsFrom(stopPc.idx)
       ELSE /\ IF stopPc.pc = "client"
               THEN StopReturn /\ UNCHANGED stopCaught
               ELSE StopCatch
            /\ NoCloseCall
            /\ UNCHANGED <<activeReceivers, clientVars>>
    /\ UNCHANGED <<offVars, cfgVars, rcvSid, subscribed, receivers, loopVars, handlers,
                   stopCalls, msgVars>>

\* ------------------------------------------------------- processMessage
SubscribeUnbounded ==
    [autoCompleteMessages |-> autoComplete, maxConcurrentCalls |-> MaxMsgs]

\* the options both subscribe calls pass
SubscribeOptions ==
    [autoCompleteMessages |-> autoComplete, maxConcurrentCalls |-> maxConcurrentCalls]

\* the per-message callbacks of receiver r that have not returned yet
InFlight(r) == {m \in Msgs : msgs[m].rcv = r /\ msgs[m].pc = "state"}

\* processMessage awaits getSessionState() before it emits
ReadsSessionState == sessionMode # "none"

\* completeMessage calls that follow this.emit for one message: processMessage
\* makes none; with autoCompleteMessages the SDK settles the message itself
\* when the callback returns
CompletionsAfterEmit == IF SubscribeOptions.autoCompleteMessages THEN 1 ELSE 0

SinkFails == Cardinality({i \in 1..Len(emitted) : ~emitted[i].ok})

\* outcomes of this.emit: it returns, or the sink throws
EmitOutcomes == IF SinkFails < MaxSinkFails THEN {TRUE, FALSE} ELSE {TRUE}

\* the record processMessage hands to this.emit for message m of receiver r
Record(m, r, stateNull, ok) == [msg |-> m, rcv |-> r, stateNull |-> stateNull, ok |-> ok]

\* this.emit([[nodeExecutionData]]) for message m, and the end of the
\* callback: it returns, or it rejects with what the sink threw
Emit(m, r, stateNull, ok) ==
    /\ emitted' = Append(emitted, Record(m, r, stateNull, ok))
    /\ completeCalls' = [completeCalls EXCEPT
                            ![m] = @ + (IF ok THEN CompletionsAfterEmit ELSE 0)]
    /\ msgs' = [msgs EXCEPT ![m] = [rcv |-> r, pc |-> IF ok THEN "done" ELSE "rejected"]]

\* the SDK hands the next message of receiver r to processMessage, at most
\* maxConcurrentCalls callbacks at a time; the callback runs to its first await
Deliver(r) ==
    /\ clientState = "open"
    /\ rcvState[r] = "open" /\ subscribed[r]
    /\ nextMsg <= MaxMsgs
    /\ Cardinality(InFlight(r)) < SubscribeOptions.maxConcurrentCalls
    /\ nextMsg' = nextMsg + 1
    /\ IF ReadsSessionState
       THEN /\ msgs' = [msgs EXCEPT ![nextMsg] = [rcv |-> r, pc |-> "state"]]
            /\ UNCHANGED <<emitted, completeCalls>>
       ELSE \E ok \in EmitOutcomes : Emit(nextMsg, r, FALSE, ok)
    /\ UNCHANGED <<offVars, cfgVars, clientVars, rcvVars, receivers, activeReceivers, loopVars,
                   handlers, stopVars>>

EmitsOnlyWithState(stateOk) == stateOk

\* whether the record is emitted once getSessionState() has settled: the
\* catch of a rejected read fills in sessionState null and falls through
EmitsAfterStateRead(stateOk) == TRUE

\* getSessionState() of message m's callback resolves (stateOk) or rejects
StateReturn(m, stateOk) ==
    /\ msgs[m].pc = "state"
    /\ IF EmitsAfterStateRead(stateOk)
       THEN \E ok \in EmitOutcomes : Emit(m, msgs[m].rcv, ~stateOk, ok)
       ELSE /\ msgs' = [msgs EXCEPT ![m].pc = "rejected"]
            /\ UNCHANGED <<emitted, completeCalls>>
    /\ UNCHANGED <<offVars, cfgVars, clientVars, rcvVars, receivers, activeReceivers, loopVars,
                   handlers, stopVars, nextMsg>>

\* ------------------------------------------------------- specification
\* Spec: every operation of the trigger together, at the narrow scope
\* ScopeReceivers, ScopeAccepts, ScopeErrors, ScopeStops.
ScopedAcceptOk(s) == NextRcv <= ScopeReceivers /\ AcceptOk(s)

ScopedLoopWake == acceptCalls < ScopeAccepts /\ LoopWake

ScopedErrorFire(h, r) == h <= ScopeErrors /\ ErrorFire(h, r)

ScopedSinkErrorFire(h, m) == h <= ScopeErrors /\ SinkErrorFire(h, m)
ScopedStopCall == stopCalls < ScopeStops /\ StopCall

Next ==
    \/ \E s \in Sessions : ScopedAcceptOk(s)
    \/ AcceptFail
    \/ LoopSubscribe
    \/ ScopedLoopWake
    \/ \E h \in Handlers, r \in Rcv : ScopedErrorFire(h, r)
    \/ \E h \in Handlers : ErrorResume(h)
    \/ \E h \in Handlers : ErrorWrap(h)
    \/ ScopedStopCall
    \/ StopResume
    \/ \E r \in Rcv : Deliver(r)
    \/ \E m \in Msgs, ok \in BOOLEAN : StateReturn(m, ok)
    \/ \E h \in Handlers, m \in Msgs : ScopedSinkErrorFire(h, m)

Spec == Init /\ [][Next]_vars

\* SpecLifecycle: receivers, registry, acquisition loop, error callbacks and
\* closeFunction at the wide scope, with no message dispatched (the message
\* callbacks write none of these variables); the dispatch parameters keep
\* their defaults.
InitLifecycle ==
    /\ Init
    /\ autoComplete
    /\ maxConcurrentCalls = 1

NextLifecycle ==
    \/ \E s \in Sessions : AcceptOk(s)
    \/ AcceptFail
    \/ LoopSubscribe
    \/ LoopWake
    \/ \E h \in Handlers, r \in Rcv : ErrorFire(h, r)
    \/ \E h \in Handlers : ErrorResume(h)
    \/ \E h \in Handlers : ErrorWrap(h)
    \/ StopCall
    \/ StopResume

SpecLifecycle == InitLifecycle /\ [][NextLifecycle]_vars

\* the running trigger in 'any' mode (closeFunction is not called): timers
\* fire, a subscribe call that has been reached is made, and the broker
\* eventually grants a session that is free whenever an accept is pending
InitAny == InitLifecycle /\ sessionMode = "any"

NextAny ==
    \/ \E s \in Sessions : AcceptOk(s)
    \/ AcceptFail
    \/ LoopSubscribe
    \/ LoopWake
    \/ \E h \in Handlers, r \in Rcv : ErrorFire(h, r)
    \/ \E h \in Handlers : ErrorResume(h)
    \/ \E h \in Handlers : ErrorWrap(h)

FairAny ==
    /\ WF_vars(LoopWake)
    /\ WF_vars(LoopSubscribe)
    /\ \A s \in Sessions : SF_vars(AcceptOk(s))

SpecAny == InitAny /\ [][NextAny]_vars /\ FairAny

\* the loop's wake-up once acceptCalls has reached MaxAccepts: the accept
\* request is made as before and is no longer counted; on a closed client
\* it stays pending until it is rejected
LoopWakeUncounted ==
    /\ loopPc \in {"sleep1", "sleep5"}
    /\ acceptCalls = MaxAccepts
    /\ ~(sessionMode = "specific" /\ MapHas(activeReceivers, specificSessionId))
    /\ acceptReq' = AcceptRequest
    /\ reused' = FALSE
    /\ loopPc' = "accepting"
    /\ UNCHANGED <<offVars, cfgVars, clientVars, rcvVars, receivers, activeReceivers,
                   loopCur, acceptCalls, handlers, stopVars, msgVars>>

\* the running trigger in a session mode with closeFunction: timers fire, a
\* pending accept is answered, a subscribe call that has been reached is
\* made, and closeFunction runs on once called
InitStop == InitLifecycle /\ sessionMode # "none"

NextStop ==
    \/ \E s \in Sessions : AcceptOk(s)
    \/ AcceptFail
    \/ LoopSubscribe
    \/ LoopWake
    \/ LoopWakeUncounted
    \/ StopCall
    \/ StopResume

FairStop ==
    /\ WF_vars(LoopWake)
    /\ WF_vars(LoopWakeUncounted)
    /\ WF_vars(LoopSubscribe)
    /\ WF_vars(AcceptFail)
    /\ WF_vars(StopResume)

SpecStop == InitStop /\ [][NextStop]_vars /\ FairStop

\* =================================================================
\* Claims
\* =================================================================
\* -------------------------------------------------------------- execute
IsEmptyFalsy(x) == Falsy(x)

\* isEmptyMessageBody(messageBody)
IsEmptyMessageBody(x) ==
    IF x.t \in {"null", "undefined"} THEN TRUE
    ELSE IF x.t = "string" THEN Trim(x.v) = <<>>
    ELSE IF x.t \in {"number", "boolean"} THEN FALSE
    ELSE IF x.t \in {"object", "array", "buffer"} THEN FALSE
    ELSE TRUE

\* the message bodies an input item may carry
SendBodies ==
    {Null, Undefined, Str(<<>>), Str(<<Space>>), Str(<<Letter>>), Str(<<Space, Letter>>),
     Num(0), Num(1), Bool(FALSE), Bool(TRUE), Object(<<>>), Array(<<>>)}

\* the texts newSessionState is configured with
StateTexts ==
    {Str(<<>>), Str(<<Space>>), Str(<<LBrace, RBrace>>), Str(<<LBrace>>), Str(<<Letter>>)}

\* execute has been called and has not run yet
ExecuteNew ==
    /\ protocol \in {"sdk", "http"}
    /\ resource \in {"queue", "topic"}
    /\ operation \in {"sendMessage", "receiveMessages"}
    /\ items \in IF operation = "sendMessage" THEN SeqsUpTo(SendBodies, MaxItems) ELSE {<<>>}
    /\ receiveMode \in IF operation = "receiveMessages"
                        THEN {"peekLock", "receiveAndDelete"} ELSE {"peekLock"}
    /\ execSessionMode \in IF operation = "receiveMessages"
                            THEN {"none", "specific", "next"} ELSE {"none"}
    /\ manageSessionState \in IF operation = "receiveMessages" THEN BOOLEAN ELSE {FALSE}
    /\ newSessionState \in IF manageSessionState THEN StateTexts ELSE {Str(<<>>)}
    /\ exPc = "new" /\ exIdx = 0 /\ execClients = 0 /\ execCloses = 0
    /\ brokerOps = 0 /\ sent = <<>> /\ messages = <<>> /\ completed = <<>>
    /\ stateSets = 0 /\ returnData = <<>> /\ cause = <<>> /\ execError = <<>>
    /\ execFails = 0

\* the outcomes an awaited broker or network call may have
CallOutcomes == IF execFails < MaxExecFails THEN {TRUE, FALSE} ELSE {TRUE}

Failed(ok) == execFails' = IF ok THEN execFails ELSE execFails + 1

\* `protocol === 'sdk' && serviceBusClient`
HasClient == protocol = "sdk"

Prefix == "Azure Service Bus operation failed: "

\* execute goes on to its next await inside the try block
Goto(pc) == exPc' = pc /\ UNCHANGED <<cause, execError, execCloses>>

FinallySkipsOnError(after) ==
    IF HasClient /\ after = "closing"
    THEN exPc' = after /\ execCloses' = execCloses + 1
    ELSE exPc' = (IF after = "closing" THEN "returned" ELSE "threw") /\ UNCHANGED execCloses

\* the finally block: serviceBusClient.close() is awaited when there is a
\* client; after is where execute is while close() is pending
Finally(after) ==
    IF HasClient
    THEN exPc' = after /\ execCloses' = execCloses + 1
    ELSE exPc' = (IF after = "closing" THEN "returned" ELSE "threw") /\ UNCHANGED execCloses

\* an error with message msg is thrown inside the try block: the catch wraps
\* it, then the finally block runs
Raise(msg) ==
    /\ cause' = msg
    /\ execError' = <<Prefix>> \o msg
    /\ Finally("closingAfterError")

\* the try block ends without an error
Finish == UNCHANGED <<cause, execError>> /\ Finally("closing")


\* the record pushed for item i once its send has returned
SentRecord(i) == [item |-> i, body |-> Bool(TRUE)]

\* the send loop from item i to its next await
SendFrom(i) ==
    IF i > Len(items)
    THEN /\ IF HasClient THEN Goto("senderClosing") ELSE Finish
         /\ UNCHANGED <<exIdx, sent, brokerOps>>
    ELSE IF IsEmptyMessageBody(items[i])
    THEN /\ Raise(<<"Message Body cannot be empty">>)
         /\ exIdx' = i
         /\ UNCHANGED <<sent, brokerOps>>
    ELSE /\ Goto("sending")
         /\ exIdx' = i
         /\ sent' = Append(sent, i)
         /\ brokerOps' = brokerOps + 1

\* the try block up to its first await
Operation ==
    IF resource = "queue" /\ operation = "sendMessage"
    THEN SendFrom(1)
    ELSE IF resource = "queue"
    THEN /\ UNCHANGED <<exIdx, sent>>
         /\ IF ~HasClient
            THEN /\ Raise(<<"Receive messages is only supported with Azure SDK protocol">>)
                 /\ UNCHANGED brokerOps
            ELSE /\ Goto(IF execSessionMode = "none" THEN "receiving" ELSE "accepting")
                 /\ brokerOps' = brokerOps + 1
    ELSE IF operation = "sendMessage"
    THEN IF ~HasClient
         THEN /\ Raise(<<"Topic operations are only supported with Azure SDK protocol">>)
              /\ UNCHANGED <<exIdx, sent, brokerOps>>
         ELSE SendFrom(1)
    ELSE /\ Finish
         /\ UNCHANGED <<exIdx, sent, brokerOps>>

\* execute from its call to the first await of the try block: credentials,
\* the connection string check, the client, the operation
ExecuteStart ==
    /\ exPc = "new"
    /\ IF ConnectionStringError(connectionString) # ""
       THEN /\ exPc' = "threw"
            /\ execError' = <<ConnectionStringError(connectionString)>>
            /\ UNCHANGED <<execClients, cause, execCloses, exIdx, sent, brokerOps>>
       ELSE /\ execClients' = IF protocol = "sdk" THEN execClients + 1 ELSE execClients
            /\ Operation
    /\ UNCHANGED <<trigVars, startVars, normVars, paramVars, messages, completed,
                   stateSets, returnData, execFails>>

SendReturnRecordsAlways(ok) ==
    /\ exPc = "sending"
    /\ Failed(ok)
    /\ returnData' = Append(returnData, SentRecord(exIdx))
    /\ IF ok
       THEN SendFrom(exIdx + 1)
       ELSE /\ Raise(<<"send failed">>)
            /\ UNCHANGED <<exIdx, sent, brokerOps>>
    /\ UNCHANGED <<trigVars, startVars, normVars, paramVars, execClients, messages,
                   completed, stateSets>>

\* sender.sendMessages / sendMessageViaHTTP of item exIdx returns or throws
SendReturn(ok) ==
    /\ exPc = "sending"
    /\ Failed(ok)
    /\ IF ok
       THEN /\ returnData' = Append(returnData, SentRecord(exIdx))
            /\ SendFrom(exIdx + 1)
       ELSE /\ Raise(<<"send failed">>)
            /\ UNCHANGED <<returnData, exIdx, sent, brokerOps>>
    /\ UNCHANGED <<trigVars, startVars, normVars, paramVars, execClients, messages,
                   completed, stateSets>>

\* await sender.close() returns or throws
SenderCloseReturn(ok) ==
    /\ exPc = "senderClosing"
    /\ Failed(ok)
    /\ IF ok THEN Finish ELSE Raise(<<"sender close failed">>)
    /\ UNCHANGED <<trigVars, startVars, normVars, paramVars, exIdx, execClients, brokerOps,
                   sent, messages, completed, stateSets, returnData>>

CompletesAlways == TRUE

\* `receiveMode === 'peekLock'`
CompletesEach == receiveMode = "peekLock"

StateAlwaysParses == TRUE

\* JSON.parse(newSessionState) returns
StateParses == JsonParses(newSessionState.v)

AfterLoopAlwaysSets ==
    IF execSessionMode # "none"
    THEN /\ Goto("settingState")
         /\ stateSets' = stateSets + 1
         /\ brokerOps' = brokerOps + 1
    ELSE /\ Goto("receiverClosing")
         /\ UNCHANGED <<stateSets, brokerOps>>

\* after the receive loop: the session state update, else receiver.close()
AfterLoop ==
    IF /\ execSessionMode # "none" /\ manageSessionState
       /\ ~Falsy(newSessionState) /\ Trim(newSessionState.v) # <<>>
    THEN IF StateParses
         THEN /\ Goto("settingState")
              /\ stateSets' = stateSets + 1
              /\ brokerOps' = brokerOps + 1
         ELSE /\ Raise(<<"Failed to update session state: ", "Unexpected token">>)
              /\ UNCHANGED <<stateSets, brokerOps>>
    ELSE /\ Goto("receiverClosing")
         /\ UNCHANGED <<stateSets, brokerOps>>

\* the receive mode of the receiver execute holds: createReceiver is given
\* receiveMode, acceptSession and acceptNextSession are not, and the SDK then
\* opens the session receiver in its default mode, peekLock
ReceiverMode == IF execSessionMode = "none" THEN receiveMode ELSE "peekLock"

\* the bodies receiveMessages returns a message with
ReceivedBodies == {Str(<<Letter>>), Object(<<MemberType>>)}

\* the message of the error thrown when accepting the session fails
AcceptError ==
    IF execSessionMode = "specific" THEN "Failed to accept session 'id': "
    ELSE "No available sessions or failed to accept session: "

\* await serviceBusClient.acceptSession / acceptNextSession returns or throws
AcceptReturn(ok) ==
    /\ exPc = "accepting"
    /\ Failed(ok)
    /\ IF ok
       THEN /\ Goto(IF manageSessionState THEN "readingState" ELSE "receiving")
            /\ brokerOps' = brokerOps + 1
       ELSE /\ Raise(<<AcceptError, "accept failed">>)
            /\ UNCHANGED brokerOps
    /\ UNCHANGED <<trigVars, startVars, normVars, paramVars, exIdx, execClients, sent,
                   messages, completed, stateSets, returnData>>

\* await receiver.getSessionState() returns or throws; the error is swallowed
StateReadReturn(ok) ==
    /\ exPc = "readingState"
    /\ Failed(ok)
    /\ Goto("receiving")
    /\ brokerOps' = brokerOps + 1
    /\ UNCHANGED <<trigVars, startVars, normVars, paramVars, exIdx, execClients, sent,
                   messages, completed, stateSets, returnData>>

ExecuteKeepsText(x) ==
    IF x.t = "object" /\ (Includes(x.v, MemberWrap) \/ Includes(x.v, MemberType))
    THEN IF Includes(x.v, MemberWrap) THEN Str(Utf8Decode(<<Letter>>)) ELSE Thrown
    ELSE IF x.t = "buffer" THEN Str(Utf8Decode(x.v))
    ELSE x

\* the body normalizer of execute's receive loop: the text of a Buffer
\* wrapper structure (Buffer.from throws when it has no data) or of a Buffer,
\* then the JSON parse result of a text that starts with '{' once trimmed
\* and parses
ExecuteNormalize(x) ==
    LET text == IF x.t = "object" /\ (Includes(x.v, MemberWrap) \/ Includes(x.v, MemberType))
                THEN IF Includes(x.v, MemberWrap)
                     THEN Str(Utf8Decode(<<Letter>>))
                     ELSE Thrown
                ELSE IF x.t = "buffer" THEN Str(Utf8Decode(x.v))
                ELSE x
    IN IF text.t = "string" /\ StartsWith(Trim(text.v), LBrace) /\ JsonParses(text.v)
       THEN Object(Inner(text.v))
       ELSE text

\* the record pushed for received message k
ReceivedRecord(k) == [item |-> k, body |-> ExecuteNormalize(messages'[k])]

\* the receive loop from message k to its next await, Receive Mode peekLock
ReceiveFrom(k) ==
    IF k > Len(messages')
    THEN /\ AfterLoop
         /\ UNCHANGED <<exIdx, returnData, completed>>
    ELSE IF ExecuteNormalize(messages'[k]) = Thrown
    THEN /\ Raise(<<"The first argument must be of type string or an instance of Buffer">>)
         /\ exIdx' = k
         /\ UNCHANGED <<returnData, completed, brokerOps, stateSets>>
    ELSE /\ returnData' = Append(returnData, ReceivedRecord(k))
         /\ exIdx' = k
         /\ Goto("completing")
         /\ completed' = Append(completed, k)
         /\ brokerOps' = brokerOps + 1
         /\ UNCHANGED stateSets

\* the whole receive loop, Receive Mode receiveAndDelete: no await in it
ReceiveAll ==
    LET n == Len(messages')
        bad == {k \in 1..n : ExecuteNormalize(messages'[k]) = Thrown}
        stop == IF bad = {} THEN n + 1 ELSE CHOOSE k \in bad : \A j \in bad : k <= j
    IN /\ returnData' = returnData \o [k \in 1..(stop - 1) |-> ReceivedRecord(k)]
       /\ exIdx' = IF stop > n THEN n ELSE stop
       /\ UNCHANGED completed
       /\ IF stop > n
          THEN AfterLoop
          ELSE /\ Raise(<<"The first argument must be of type string or an instance of Buffer">>)
               /\ UNCHANGED <<brokerOps, stateSets>>

\* await receiver.receiveMessages(...) returns batch or throws
ReceiveReturn(ok, batch) ==
    /\ exPc = "receiving"
    /\ Failed(ok)
    /\ IF ok
       THEN /\ messages' = batch
            /\ IF CompletesEach THEN ReceiveFrom(1) ELSE ReceiveAll
       ELSE /\ Raise(<<"receive failed">>)
            /\ UNCHANGED <<messages, exIdx, returnData, completed, brokerOps, stateSets>>
    /\ UNCHANGED <<trigVars, startVars, normVars, paramVars, execClients, sent>>

\* await receiver.completeMessage(message) of message exIdx returns or throws
CompleteReturn(ok) ==
    /\ exPc = "completing"
    /\ Failed(ok)
    /\ IF ok
       THEN /\ UNCHANGED messages
            /\ ReceiveFrom(exIdx + 1)
       ELSE /\ Raise(<<"complete failed">>)
            /\ UNCHANGED <<messages, exIdx, returnData, completed, brokerOps, stateSets>>
    /\ UNCHANGED <<trigVars, startVars, normVars, paramVars, execClients, sent>>

\* await receiver.setSessionState(stateObject) returns or throws
SetStateReturn(ok) ==
    /\ exPc = "settingState"
    /\ Failed(ok)
    /\ IF ok THEN Goto("receiverClosing")
             ELSE Raise(<<"Failed to update session state: ", "set failed">>)
    /\ UNCHANGED <<trigVars, startVars, normVars, paramVars, exIdx, execClients, brokerOps,
                   sent, messages, completed, stateSets, returnData>>

\* await receiver.close() returns or throws
ReceiverCloseReturn(ok) ==
    /\ exPc = "receiverClosing"
    /\ Failed(ok)
    /\ IF ok THEN Finish ELSE Raise(<<"receiver close failed">>)
    /\ UNCHANGED <<trigVars, startVars, normVars, paramVars, exIdx, execClients, brokerOps,
                   sent, messages, completed, stateSets, returnData>>

\* await serviceBusClient.close() of the finally block returns or throws; an
\* error thrown here replaces the one the catch block threw
ClientCloseReturn(ok) ==
    /\ exPc \in {"closing", "closingAfterError"}
    /\ Failed(ok)
    /\ exPc' = IF ok /\ exPc = "closing" THEN "returned" ELSE "threw"
    /\ execError' = IF ok THEN execError ELSE <<"client close failed">>
    /\ UNCHANGED <<trigVars, startVars, normVars, paramVars, cause, execCloses, exIdx,
                   execClients, brokerOps, sent, messages, completed, stateSets, returnData>>

\* the normalizer is applied to a delivered body
NormalizeBody ==
    /\ normPc = "new"
    /\ normalized' = Normalize(body)
    /\ normPc' = "once"
    /\ UNCHANGED <<trigVars, startVars, execVars, body, renormalized>>

\* the normalizer is applied to a body it returned
NormalizeAgain ==
    /\ normPc = "once" /\ normalized # Thrown
    /\ renormalized' = Normalize(normalized)
    /\ normPc' = "twice"
    /\ UNCHANGED <<trigVars, startVars, execVars, body, normalized>>

InitNormalize ==
    /\ NoTrigger /\ Configured /\ Unstarted /\ NoExecute
    /\ body \in Bodies
    /\ normalized = Undefined /\ renormalized = Undefined
    /\ normPc = "new"

NextNormalize == NormalizeBody \/ NormalizeAgain

SpecNormalize == InitNormalize /\ [][NextNormalize]_vars

InitStart == NoTrigger /\ NotStarted /\ NoBody /\ NoExecute

NextStart == \E ws \in BOOLEAN : TriggerStart(ws)

SpecStart == InitStart /\ [][NextStart]_vars

\* a trigger node and an action node on the same credentials
InitExecute ==
    /\ NoTrigger /\ NoBody /\ Unstarted
    /\ connectionString \in ConnectionStrings
    /\ maxRetryAttempts = Num(DefaultMaxRetries)
    /\ ExecuteNew

NextExecute ==
    \/ \E ws \in BOOLEAN : TriggerStart(ws)
    \/ ExecuteStart
    \/ \E ok \in CallOutcomes : SendReturn(ok)
    \/ \E ok \in CallOutcomes : SenderCloseReturn(ok)
    \/ \E ok \in CallOutcomes : AcceptReturn(ok)
    \/ \E ok \in CallOutcomes : StateReadReturn(ok)
    \/ \E ok \in CallOutcomes, batch \in SeqsUpTo(ReceivedBodies, MaxBatch) :
           ReceiveReturn(ok, batch)
    \/ \E ok \in CallOutcomes : CompleteReturn(ok)
    \/ \E ok \in CallOutcomes : SetStateReturn(ok)
    \/ \E ok \in CallOutcomes : ReceiverCloseReturn(ok)
    \/ \E ok \in CallOutcomes : ClientCloseReturn(ok)

SpecExecute == InitExecute /\ [][NextExecute]_vars

Opened(r) == rcvState[r] # "unborn"

IsSession(r) == Opened(r) /\ rcvSid[r] # 0

\* shutdown bookkeeping: the plain receivers list and the registry
Tracked(r) ==
    \/ \E i \in 1..Len(receivers) : receivers[i] = r
    \/ r \in MapValues(activeReceivers)

Emitted(m) == \E i \in 1..Len(emitted) : emitted[i].msg = m

\* C1: under the manual completion policy (autoComplete = FALSE) every
\* message whose callback has run got exactly one completeMessage call, and
\* a message is completed only after its record was emitted.
C1_ManualCompletedOnce ==
    \A m \in Msgs :
        /\ (~autoComplete /\ msgs[m].pc = "done") => completeCalls[m] = 1
        /\ completeCalls[m] > 0 => Emitted(m)

\* C2: in 'specific' mode, once an error callback of the subscribed session
\* handle has closed and evicted the receiver (and the trigger is not being
\* stopped), the acquisition loop is still at work on the configured session:
\* accepting, about to subscribe, or sleeping before its next attempt.
C2_SpecificReacquires ==
    ( /\ sessionMode = "specific"
      /\ stopCalls = 0
      /\ \E h \in Handlers : handlers[h].pc \in {"wrap", "done"}
      /\ MapIsEmpty(activeReceivers) )
    => loopPc \in {"accepting", "got", "sleep1", "sleep5"}

\* C3: once closeFunction has been called, no acceptSession /
\* acceptNextSession request is issued on the client any more.
C3_NoAcceptAfterStop ==
    [][stopCalls > 0 => acceptCalls' = acceptCalls]_vars

\* C4: after a closeFunction call has returned, a later call issues no
\* close() on a receiver that closeFunction already closed, and none on the
\* client it already closed.
C4_StopTwiceNoDuplicateClose ==
    [][stopReturns > 0 =>
        /\ \A r \in Rcv :
              (rcvState[r] = "closed" /\ closeCalls[r].stop > 0 /\ closeCalls[r].err = 0)
              => closeCalls'[r].stop = closeCalls[r].stop
        /\ clientState = "closed" => clientCloseCalls' = clientCloseCalls]_vars

\* C5: every receiver that was opened and on which close() was never called
\* is in the receivers list or the registry, and once a closeFunction call
\* has returned every opened receiver has had close() called on it.
C5_OpenedReceiversTracked ==
    /\ \A r \in Rcv : (Opened(r) /\ TotalCloses(r) = 0) => Tracked(r)
    /\ (stopReturns > 0 /\ stopPc.pc = "idle") =>
            \A r \in Rcv : Opened(r) => TotalCloses(r) > 0

\* C6: no session receiver has close() called on it more than once, by the
\* error callbacks and closeFunction together (runs in which no close() threw).
C6_SessionReceiverClosedOnce ==
    closeFails = 0 => \A r \in Rcv : IsSession(r) => TotalCloses(r) <= 1

\* C7: every open session receiver (opened, close() never called on it) is
\* the registry entry of its session id.
C7_OpenReceiverIsRegistryEntry ==
    \A r \in Rcv :
        (IsSession(r) /\ rcvState[r] = "open" /\ TotalCloses(r) = 0)
        => /\ MapHas(activeReceivers, rcvSid[r])
           /\ MapGet(activeReceivers, rcvSid[r]) = r

\* C8: when an error callback of a session-bound handle has run processError
\* to its end, close() has been called on every session receiver the registry
\* held when the callback fired (runs in which no close() threw).
C8_ErrorClosesAllTracked ==
    \A h \in Handlers :
        (sessionMode # "none" /\ closeFails = 0 /\ handlers[h].pc \in {"wrap", "done"})
        => \A r \in handlers[h].tracked : TotalCloses(r) > 0

\* C9: within one handle the records reach the sink in the order in which
\* the broker delivered the messages to the callback.
C9_EmitInDeliveryOrder ==
    \A i, j \in 1..Len(emitted) :
        (i < j /\ emitted[i].rcv = emitted[j].rcv) => emitted[i].msg < emitted[j].msg

\* C10: after a closeFunction call has returned no record is handed to the
\* sink (runs in which no close() threw).
C10_NoEmitAfterStop ==
    [][(stopReturns > 0 /\ closeFails = 0) => emitted' = emitted]_vars

\* C11: a failure of the sink callback for one message does not stop the
\* stream: in the step in which the failure is reported, no receiver is
\* closed and no registry entry is evicted because of it (runs in which no
\* close() threw).
C11_SinkFailureClosesNothing ==
    [][((\E m \in Msgs : msgs[m].pc = "rejected" /\ msgs'[m].pc = "done")
          /\ closeFails' = 0)
         => /\ closeCalls' = closeCalls
            /\ rcvState' = rcvState
            /\ activeReceivers' = activeReceivers]_vars

\* C12: every closeFunction call that returns has invoked
\* serviceBusClient.close(), also when a receiver's close() failed during the
\* call: there are at least as many client close calls as returned calls.
C12_ReturnedStopClosedClient == stopReturns <= clientCloseCalls

\* C13: closeFunction never raises: every call that has ended returned
\* normally, whatever close() failed during it.
C13_CloseFunctionNeverRaises ==
    /\ stopRaises = 0
    /\ stopCalls = stopReturns + (IF stopPc.pc = "idle" THEN 0 ELSE 1)

\* a first call and a repeated call have both ended, and a failing close() of
\* one of them reached the outer catch
C13_FailedCloseLogged == stopCalls = 2 /\ stopPc.pc = "idle" /\ stopCaught > 0

\* C14: when closeFunction closes the client, close() has been invoked by
\* closeFunction on every plain receiver in each call so far and on every
\* session receiver still in the registry (runs in which no close() threw).
C14_ClientClosedAfterAllReceivers ==
    [][(clientCloseCalls' > clientCloseCalls /\ closeFails' = 0)
         => /\ \A i \in 1..Len(receivers) : closeCalls[receivers[i]].stop >= stopCalls'
            /\ \A r \in MapValues(activeReceivers) : closeCalls[r].stop >= 1]_vars

\* C15: in 'specific' mode every accept request is acceptSession for the
\* configured session id, never acceptNextSession; a failed accept leads to
\* the fixed 5 s sleep, and the sleep ends in a new acceptSession request for
\* the same id (or in the reuse of the receiver registered for it).
C15_SpecificRetriesSameSession ==
    /\ [](sessionMode = "specific" => acceptReq = specificSessionId)
    /\ [][sessionMode = "specific" =>
            /\ (loopPc = "accepting" /\ loopPc' # "accepting" /\ rcvVars' = rcvVars)
                 => loopPc' = "sleep5"
            /\ (loopPc = "sleep5" /\ loopPc' # "sleep5")
                 => \/ /\ acceptCalls' = acceptCalls + 1
                       /\ acceptReq' = specificSessionId
                       /\ loopPc' \in {"accepting", "sleep5"}
                    \/ /\ MapHas(activeReceivers, specificSessionId)
                       /\ loopPc' = "got"]_vars

\* acceptSession failed and, with no stop and no error callback involved, a
\* second acceptSession request for the configured id is pending
C15_RetryPending ==
    /\ sessionMode = "specific"
    /\ acceptCalls = 2 /\ loopPc = "accepting" /\ acceptReq = specificSessionId
    /\ stopCalls = 0 /\ \A h \in Handlers : handlers[h].pc = "idle"

\* C17: in 'specific' mode a getOrCreateSessionReceiver call made while the
\* registry still holds the configured id returns the receiver the previous
\* call returned, and issues no accept request.
C17_SecondCallReusesReceiver ==
    [][(/\ sessionMode = "specific"
        /\ loopPc \in {"sleep1", "sleep5"} /\ loopPc' # loopPc
        /\ MapHas(activeReceivers, specificSessionId))
         => /\ loopCur' = loopCur
            /\ loopCur' = MapGet(activeReceivers, specificSessionId)
            /\ loopPc' = "got"
            /\ acceptCalls' = acceptCalls
            /\ acceptReq' = acceptReq]_vars

\* a second call has returned the registered receiver after a single accept
C17_Reused ==
    /\ sessionMode = "specific" /\ reused /\ loopPc = "got"
    /\ acceptCalls = 1
    /\ loopCur = MapGet(activeReceivers, specificSessionId)

Emissions(m) == Cardinality({i \in 1..Len(emitted) : emitted[i].msg = m})

C19_StateReadFailureStillCompletes ==
    \A m \in Msgs :
        (msgs[m].pc = "done" /\ ~autoComplete)
            => \A i \in 1..Len(emitted) :
                   (emitted[i].msg = m /\ emitted[i].stateNull /\ emitted[i].ok)
                       => completeCalls[m] = 1

\* C20: in 'none' mode a step of an error callback changes no receiver, not
\* the receivers list, not the registry and not the client.
C20_PlainErrorChangesNothing ==
    [][(sessionMode = "none" /\ handlers' # handlers)
         => UNCHANGED <<rcvVars, receivers, activeReceivers, clientVars>>]_vars

\* an error has been reported for the plain handle, which is still open and
\* subscribed
C20_PlainErrorReported ==
    /\ sessionMode = "none"
    /\ \E h \in Handlers : handlers[h].pc = "done" /\ handlers[h].self = 1
    /\ rcvState[1] = "open" /\ subscribed[1] /\ receivers = <<1>>

\* session s is held by an open, subscribed receiver registered under s
Claimed(s) ==
    \E r \in Rcv : /\ rcvSid[r] = s /\ rcvState[r] = "open" /\ subscribed[r]
                   /\ MapHas(activeReceivers, s) /\ MapGet(activeReceivers, s) = r

\* C16: in 'any' mode the loop never ends and only ever requests the next
\* available session; every registry entry is keyed by its receiver's own
\* session id; and a session that is free at the broker is eventually
\* accepted, registered under its id and subscribed (or held again), as far
\* as the bounds on accepts and receivers reach.
C16_AnyKeepsClaiming ==
    /\ [](sessionMode = "any" =>
            /\ loopPc # "done"
            /\ acceptReq = 0
            /\ \A k \in 1..Len(activeReceivers) :
                   activeReceivers[k].key # 0
                       => rcvSid[activeReceivers[k].value] = activeReceivers[k].key)
    /\ [][(sessionMode = "any" /\ loopPc \in {"sleep1", "sleep5"} /\ loopPc' # loopPc)
            => acceptCalls' = acceptCalls + 1]_vars
    /\ \A s \in Sessions :
           SessionFree(s) ~> (Claimed(s) \/ acceptCalls = MaxAccepts \/ NextRcv > MaxReceivers)

\* both sessions have been claimed, one after the other
C16_BothClaimed == sessionMode = "any" /\ \A s \in Sessions : Claimed(s)

\* C30: the maxRetries given to the client at build time is a non-negative
\* number: an unusable configured value (negative, or not a number) has
\* been replaced by 1000000, every other value is passed through.
C30_MaxRetriesNonNegative ==
    trigPc = "started" =>
        /\ maxRetries.t = "number" /\ maxRetries.v # <<>> /\ maxRetries.v[1] >= 0
        /\ maxRetries = IF maxRetryAttempts.t = "number" /\ maxRetryAttempts.v # <<>>
                           /\ maxRetryAttempts.v[1] >= 0
                        THEN maxRetryAttempts
                        ELSE Num(DefaultMaxRetries)

\* C24: the normalizer is idempotent: applied to a body it returned, it
\* returns that body unchanged.
C24_NormalizeIdempotent == normPc = "twice" => renormalized = normalized

\* a Buffer, or a wrapper structure {type: 'Buffer', data}
IsBinary(x) == x.t = "buffer" \/ (x.t = "object" /\ Includes(x.v, MemberWrap))

\* C25: a string body becomes its JSON parse result when, trimmed, it starts
\* with '{' and parses, and stays the same string otherwise; a body that is
\* neither a string nor binary is returned unchanged; the normalizer never
\* throws.
C25_StringsParsedOrKept ==
    normPc # "new" =>
        /\ normalized # Thrown
        /\ body.t = "string" =>
               normalized = IF StartsWith(Trim(body.v), LBrace) /\ JsonParses(body.v)
                            THEN JsonParse(body.v)
                            ELSE body
        /\ (body.t # "string" /\ ~IsBinary(body)) => normalized = body

\* the bytes of a binary body
BytesOf(x) == IF x.t = "buffer" THEN x.v ELSE <<Letter>>

\* C26 as stated: the normalized body of a binary payload is the UTF-8
\* decoded string of its bytes.
C26_BinaryIsDecodedString ==
    (normPc # "new" /\ IsBinary(body)) => normalized = Str(Utf8Decode(BytesOf(body)))

\* C26 amended: the normalized body of a binary payload is the UTF-8 decoded
\* string of its bytes, or the JSON parse result of that string when,
\* trimmed, it starts with '{' and parses.
C26_BinaryIsDecodedThenParsed ==
    (normPc # "new" /\ IsBinary(body)) =>
        normalized = IF /\ StartsWith(Trim(Utf8Decode(BytesOf(body))), LBrace)
                        /\ JsonParses(Utf8Decode(BytesOf(body)))
                     THEN JsonParse(Utf8Decode(BytesOf(body)))
                     ELSE Str(Utf8Decode(BytesOf(body)))

\* a Buffer with an undecodable byte was turned into a string, Buffer bytes
\* of a JSON text into an object
C26_BufferDecoded ==
    /\ normPc = "once" /\ body.t = "buffer"
    /\ \/ Includes(body.v, InvalidByte) /\ normalized.t = "string"
       \/ body.v = <<LBrace, MemberA, RBrace>> /\ normalized = Object(<<MemberA>>)

\* ---------------------------------------------------------------- execute
\* execute is sending
Sending == exPc # "off" /\ operation = "sendMessage"

\* execute is receiving
Receiving == exPc # "off" /\ operation = "receiveMessages"

\* the items of sequence q
Range(q) == {q[k] : k \in 1..Len(q)}

\* q is 1, 2, ... in order, each once
InOrder(q) == \A k \in 1..Len(q) : q[k] = k

\* a body that is null, undefined or a string of whitespace only
EmptyBody(x) ==
    \/ x.t \in {"null", "undefined"}
    \/ x.t = "string" /\ \A k \in 1..Len(x.v) : x.v[k] = Space

\* the send loop stopped at item i with 'Message Body cannot be empty'
Rejected(i) == exIdx = i /\ cause = <<"Message Body cannot be empty">>

\* C28: an item the send loop has come to is rejected with 'Message Body
\* cannot be empty' exactly when its body is null, undefined or a
\* whitespace-only string, and no send is issued for a rejected item.
C28_EmptyBodiesRejected ==
    Sending =>
        \A i \in 1..exIdx :
            /\ Rejected(i) <=> EmptyBody(items[i])
            /\ Rejected(i) => i \notin Range(sent)

\* 0 was sent and the whitespace-only item after it was rejected unsent
C28_BlankRejectedAfterZero ==
    /\ Sending /\ Len(items) = 2
    /\ items[1] = Num(0) /\ items[2] = Str(<<Space>>)
    /\ Rejected(2) /\ sent = <<1>> /\ exPc = "threw"

\* C27: one send per item in input order; the record of an item exists only
\* once its send has returned; an execute that returns has sent every item
\* and returns one record per item.
C27_OneSendPerItem ==
    Sending =>
        /\ InOrder(sent) /\ Len(sent) <= Len(items)
        /\ \A k \in 1..Len(returnData) : returnData[k] = SentRecord(k)
        /\ Len(returnData) =
              Len(sent) - (IF exPc = "sending" \/ cause = <<"send failed">> THEN 1 ELSE 0)
        /\ exPc = "returned" =>
              Len(sent) = Len(items) /\ Len(returnData) = Len(items)

\* two items were sent over HTTP and execute returned two records
C27_TwoSentOverHttp ==
    /\ Sending /\ protocol = "http" /\ exPc = "returned"
    /\ Len(items) = 2 /\ sent = <<1, 2>> /\ Len(returnData) = 2

\* the receive loop is over and the try block has not thrown
PastLoop == exPc \in {"settingState", "receiverClosing", "closing", "returned"}

Malformed ==
    /\ execSessionMode # "none" /\ manageSessionState
    /\ newSessionState \in {Str(<<LBrace>>), Str(<<Letter>>)}

\* C23: with session-state management on and a new session state that is not
\* parseable JSON, setSessionState is never called, execute never gets past
\* the state update and does not return normally, it ends with an error,
\* and nothing is sent to the broker once an error has been raised.
C23_MalformedStateNotSet ==
    /\ [](Receiving /\ resource = "queue" /\ Malformed =>
            /\ stateSets = 0
            /\ ~PastLoop
            /\ exPc = "threw" => execError # <<>>)
    /\ [][(Malformed /\ cause # <<>>) =>
            brokerOps' = brokerOps /\ stateSets' = stateSets]_vars

\* a batch was received and the malformed state made execute throw
C23_MalformedStateThrew ==
    /\ Receiving /\ Malformed /\ exPc = "threw" /\ Len(returnData) = 1
    /\ cause = <<"Failed to update session state: ", "Unexpected token">>
    /\ execError = <<Prefix>> \o cause /\ stateSets = 0

\* C29: a failure raised inside the try block reaches the caller as an error
\* whose message is 'Azure Service Bus operation failed: ' followed by the
\* message of the cause.
C29_FailuresArePrefixed ==
    (exPc = "threw" /\ cause # <<>>) => execError = <<Prefix>> \o cause

\* the connection string is empty or contains the sentinel
BadConnectionString ==
    \/ connectionString.t # "string"
    \/ connectionString.v = <<>>
    \/ Includes(connectionString.v, BlankValue)

ConfigurationErrors ==
    {"Azure Service Bus connection string is required",
     "Connection string contains blank values. Please re-enter your credentials."}

\* C21: with an empty connection string or one that contains the sentinel,
\* trigger start and execute each end with a configuration error; no client
\* is ever constructed and nothing is ever sent to the broker.
C21_BadConnectionStringFailsEarly ==
    (BadConnectionString /\ exPc # "off") =>
        /\ trigClients = 0 /\ clientState = "unbuilt" /\ acceptCalls = 0
        /\ execClients = 0 /\ brokerOps = 0 /\ execCloses = 0
        /\ trigPc # "new" => trigPc = "failed" /\ trigError \in ConfigurationErrors
        /\ exPc # "new" =>
              /\ exPc = "threw" /\ Len(execError) = 1 /\ execError[1] \in ConfigurationErrors

\* trigger start and execute have both failed on a sentinel connection string
C21_BothFailedOnSentinel ==
    /\ connectionString = Str(<<ConnText, BlankValue>>)
    /\ trigPc = "failed" /\ exPc = "threw"
    /\ execError = <<"Connection string contains blank values. Please re-enter your credentials.">>
\* C37: with the SDK protocol, serviceBusClient.close() is called once for
\* the client execute built, on every way out of the try block, and not
\* before the try block has ended.
C37_ClientClosedOnce ==
    (exPc # "off" /\ protocol = "sdk") =>
        /\ execClients <= 1 /\ execCloses <= execClients
        /\ (exPc \in {"returned", "threw"} /\ execClients = 1) => execCloses = 1
        /\ execCloses = 1 => exPc \in {"closing", "closingAfterError", "returned", "threw"}

\* receiveMessages was rejected and the client was closed once
C37_ClosedAfterError ==
    /\ protocol = "sdk" /\ exPc = "threw" /\ cause = <<"receive failed">>
    /\ execError = <<Prefix>> \o cause /\ execClients = 1 /\ execCloses = 1

\* the configured new session state has a character that is not whitespace
NonBlank(x) == x.t = "string" /\ \E k \in 1..Len(x.v) : x.v[k] # Space

\* C36: setSessionState is called at most once per execute, only in a
\* session mode with session-state management on and a non-blank new state,
\* and only after every received message was recorded (and completed, in
\* peekLock mode); otherwise it is not called.
C36_StateWrittenOnceAfterLoop ==
    exPc # "off" =>
        /\ stateSets <= 1
        /\ stateSets = 1 =>
              /\ operation = "receiveMessages" /\ execSessionMode # "none"
              /\ manageSessionState /\ NonBlank(newSessionState)
              /\ Len(returnData) = Len(messages)
              /\ receiveMode = "peekLock" => Len(completed) = Len(messages)

\* two messages were recorded and completed, then the state was written
C36_StateWrittenAfterTwo ==
    /\ exPc = "returned" /\ stateSets = 1 /\ receiveMode = "peekLock"
    /\ Len(messages) = 2 /\ completed = <<1, 2>>

\* the messages whose completeMessage call has returned
CompletedAtBroker ==
    IF exPc = "completing" \/ cause = <<"complete failed">>
    THEN SubSeq(completed, 1, Len(completed) - 1)
    ELSE completed

\* C32: when execute fails because completing a message or updating the
\* session state failed, no message of the call has been completed at the
\* broker.
C32_FailedExecuteCompletedNothing ==
    (/\ operation = "receiveMessages" /\ exPc = "threw"
     /\ cause # <<>> /\ cause[1] \in {"complete failed", "Failed to update session state: "})
        => CompletedAtBroker = <<>>

\* C33: every message in the output of an execute that returned is settled:
\* completed when the receiver is in peekLock mode, removed on receipt when
\* it is in receiveAndDelete mode.
C33_OutputMessagesSettled ==
    (operation = "receiveMessages" /\ exPc = "returned") =>
        \A k \in 1..Len(returnData) :
            ReceiverMode = "receiveAndDelete" \/ k \in Range(CompletedAtBroker)

\* C38: the normalizer of execute's receive loop and the normalizer of
\* processMessage give the same value for every body, also for a body one of
\* them returned.
C38_SameNormalizedValue ==
    /\ normPc \in {"once", "twice"} => normalized = ExecuteNormalize(body)
    /\ normPc = "twice" => renormalized = ExecuteNormalize(normalized)

\* both turn the text ' {"a":1}' into an object, both throw on a wrapper
\* structure without data
C38_BothParsedOrThrew ==
    /\ normPc = "once"
    /\ \/ body = Str(<<Space, LBrace, MemberA, RBrace>>) /\ normalized = Object(<<MemberA>>)
       \/ body = Object(<<MemberType>>) /\ normalized = Thrown
\* ---------------------------------------------------------------- trigger
\* C31: on every receiver the callbacks in flight at the same time are at
\* most the configured Max Concurrent Calls, and the options of every
\* subscribe call are that ceiling and the configured completion policy.
C31_InFlightWithinCeiling ==
    /\ \A r \in Rcv : Cardinality(InFlight(r)) <= maxConcurrentCalls
    /\ \A r \in Rcv : subscribed[r] =>
          /\ SubscribeOptions.maxConcurrentCalls = maxConcurrentCalls
          /\ SubscribeOptions.autoCompleteMessages = autoComplete

\* with a ceiling of 2 two callbacks of one session receiver are in flight
C31_TwoInFlight ==
    /\ maxConcurrentCalls = 2
    /\ \E r \in Rcv : rcvSid[r] # 0 /\ Cardinality(InFlight(r)) = 2

\* C35: in a session mode trigger() has returned its handle and stays
\* started: no outcome of a session accept makes the start fail.
C35_StartNeverFailsOnAccept ==
    sessionMode # "none" => trigPc = "started" /\ trigError = "" /\ trigClients = 1

\* every accept was rejected, no session receiver was ever opened, and the
\* handle was there to be called: closeFunction has returned
C35_StartedWithoutSession ==
    /\ sessionMode = "any" /\ trigPc = "started"
    /\ acceptCalls = MaxAccepts /\ loopPc = "sleep5"
    /\ \A r \in Rcv : rcvState[r] = "unborn"
    /\ stopReturns = 1

\* C34: once closeFunction has been called, the session acquisition loop
\* comes to its end.
C34_LoopEndsAfterStop == (stopCalls > 0) ~> (loopPc = "done")
====
